---- MODULE Spec2Model ----
(***************************************************************************)
(* Model of the ABA (ping-pong) OApp: the Uint256MsgCodec library and the  *)
(* MyOApp contract (send / _lzReceive) of ball-v2.                         *)
(*                                                                         *)
(* Representation.  A uint256 is a little-endian sequence of 32 base-256   *)
(* digits (digit i has weight 256^(i-1)); a byte string (calldata, memory  *)
(* bytes) is a sequence of bytes in wire order.  abi.encode of a uint256   *)
(* therefore does real work: it lays the digits out big-endian.            *)
(***************************************************************************)
EXTENDS Integers, Sequences, FiniteSets, TLC

VARIABLES
    cBuf,   \* codec harness: the byte string under test (calldata of a decode)
    cSrc,   \* codec harness: how cBuf came about: "crafted", "encode", "encodeABA"
    cVal,   \* codec harness: the value last encoded
    cOpts,  \* codec harness: the returnOptions last encoded
    cOp,    \* codec harness: the library function last called
    cOut,   \* codec harness: what the last decode returned
    ball,      \* ball[c]: the storage variable `ball` of the MyOApp deployed on chain c
    enforced,  \* enforcedOptions[peer eid][ABA_TYPE], the owner's configuration
    net,       \* net[c]: the packets in flight to chain c, oldest first
    last,      \* the last call made to a contract and what it did
    nCalls,    \* calls of send and deliveries of foreign payloads made so far
    task       \* the run of the lz:oapp:send task in progress, if any

codecVars == <<cBuf, cSrc, cVal, cOpts, cOp, cOut>>

appVars == <<ball, enforced, net, last, nCalls, task>>

vars == <<cBuf, cSrc, cVal, cOpts, cOp, cOut, ball, enforced, net, last, nCalls, task>>

\* ------------------------------------------------------------------ bounds
MaxOptLen == 2
MaxCalls == 2
EndpointPrice == 1

\* ------------------------------------------------------- program constants
WORD == 32
ABA_TYPE == 2
BASE_RECEIVE_GAS == 180000
GAS_BYTES == 16

Byte == 0..255

Min(a, b) == IF a < b THEN a ELSE b

Zeros(n) == [i \in 1..n |-> 0]

Take(s, n) == SubSeq(s, 1, Min(n, Len(s)))

\* ------------------------------------------------------------ uint256 values
\* 256^k for the small k the model needs
Pow256(k) == IF k = 0 THEN 1 ELSE IF k = 1 THEN 256 ELSE IF k = 2 THEN 65536 ELSE 16777216

\* the unsigned integer of `width` bytes holding the small natural n
UInt(n, width) == [i \in 1..width |-> IF i <= 4 THEN (n \div Pow256(i - 1)) % 256 ELSE 0]

\* the uint256 holding the small natural n
U256(n) == UInt(n, WORD)

\* the uint128 holding the small natural n
U128(n) == UInt(n, GAS_BYTES)

\* carry into digit i of a + b
RECURSIVE CarryInto(_, _, _)
CarryInto(a, b, i) ==
    IF i = 1 THEN 0 ELSE (a[i - 1] + b[i - 1] + CarryInto(a, b, i - 1)) \div 256

\* a + b in checked arithmetic of Len(a) bytes: the sum, and whether it overflows
AddDigits(a, b) == [i \in 1..Len(a) |-> (a[i] + b[i] + CarryInto(a, b, i)) % 256]

AddOverflows(a, b) == CarryInto(a, b, Len(a) + 1) = 1

\* abi.encodePacked of an unsigned integer: big-endian, its own width
Packed(u) == [j \in 1..Len(u) |-> u[Len(u) + 1 - j]]

IsZero(u) == \A i \in 1..Len(u) : u[i] = 0

\* u - 1 for u # 0 (borrow through the low zero digits)
Dec(u) ==
    LET k == CHOOSE i \in 1..Len(u) : u[i] # 0 /\ \A j \in 1..(i - 1) : u[j] = 0
    IN [i \in 1..Len(u) |-> IF i < k THEN 255 ELSE IF i = k THEN u[i] - 1 ELSE u[i]]

\* uint256 public ball = 100000000000000000000  (0x05 6B C7 5E 2D 63 10 00 00)
INITIAL_BALL ==
    [i \in 1..WORD |->
        CASE i = 3 -> 16  [] i = 4 -> 99  [] i = 5 -> 45  [] i = 6 -> 94
          [] i = 7 -> 199 [] i = 8 -> 107 [] i = 9 -> 5   [] OTHER -> 0]

MAX_U256 == [i \in 1..WORD |-> 255]

\* ------------------------------------------------------------ 32-byte words
\* mstore / abi.encode of one static value: big-endian, left-padded
WordOf(u) == [j \in 1..WORD |-> u[WORD + 1 - j]]

\* calldataload of one word, read as an unsigned integer
ValueOf(w) == [i \in 1..WORD |-> w[WORD + 1 - i]]

\* the integer u is below 256^k
FitsIn(u, k) == \A i \in (k + 1)..Len(u) : u[i] = 0

\* the integer u as a natural, for u < 256^3
Small(u) == u[1] + 256 * u[2] + 65536 * u[3]

\* the word at byte offset off of msg (calldataload), off + 32 <= Len(msg)
WordAt(msg, off) == SubSeq(msg, off + 1, off + WORD)

\* bytes are right-padded to a multiple of 32 by abi.encode
PadLen(n) == (WORD - (n % WORD)) % WORD


\* ------------------------------------------------------ Uint256MsgCodec.sol
\* the outcome of a library call: a returned tuple, or the error it reverts with
Ok(v, t, r) == [ok |-> TRUE, err |-> "", value |-> v, msgType |-> t, returnOptions |-> r]

Revert(e) == [ok |-> FALSE, err |-> e, value |-> Zeros(WORD), msgType |-> 0, returnOptions |-> <<>>]

\* mutant: the value laid out least significant byte first
encode_LittleEndian(value) == value

\* no decode called yet
NotCalled == Revert("not called")

\* abi.encode(_value)
encode(value) == WordOf(value)

\* mutant: the length check taken as a lower bound, the slice [:32] doing the rest
decode_AtLeast(msg) ==
    IF Len(msg) < WORD
    THEN Revert("InvalidMsgLength")
    ELSE Ok(ValueOf(SubSeq(msg, 1, WORD)), 0, <<>>)

\* decode(bytes calldata _msg): length check, then abi.decode(_msg[:32], (uint256))
decode(msg) ==
    IF Len(msg) # WORD
    THEN Revert("InvalidMsgLength")
    ELSE Ok(ValueOf(SubSeq(msg, 1, WORD)), 0, <<>>)

\* mutant: abi.encodePacked in place of abi.encode
encodeABA_Packed(value, returnOptions) ==
    WordOf(value) \o <<0, ABA_TYPE>> \o returnOptions

\* mutant: the tail bytes are not padded to a word multiple
encodeABA_Unpadded(value, returnOptions) ==
    WordOf(value) \o WordOf(U256(ABA_TYPE)) \o WordOf(U256(3 * WORD))
        \o WordOf(U256(Len(returnOptions))) \o returnOptions

\* abi.encode(_value, ABA_TYPE, _returnOptions): head [value][type][offset of the
\* tail = 96], tail [length][bytes, right-padded with zeros to a word multiple]
encodeABA(value, returnOptions) ==
    WordOf(value) \o WordOf(U256(ABA_TYPE)) \o WordOf(U256(3 * WORD))
        \o WordOf(U256(Len(returnOptions))) \o returnOptions
        \o Zeros(PadLen(Len(returnOptions)))

\* mutant: a declared length beyond the buffer is cut to what is there
AbiDecodeBytes_Truncating(msg, offset) ==
    IF ~FitsIn(offset, 8) THEN Revert("abi: invalid tuple offset")
    ELSE IF ~FitsIn(offset, 3) \/ ~(Small(offset) + (WORD - 1) < Len(msg))
    THEN Revert("abi: invalid calldata array offset")
    ELSE LET off == Small(offset)
             length == ValueOf(WordAt(msg, off))
             src == off + WORD
         IN IF ~FitsIn(length, 3) \/ src + Small(length) > Len(msg)
            THEN Ok(Zeros(WORD), 0, SubSeq(msg, src + 1, Len(msg)))
            ELSE Ok(Zeros(WORD), 0, SubSeq(msg, src + 1, src + Small(length)))

\* the dynamic member of abi.decode(_msg, (uint256, uint16, bytes)): the compiler's
\* abi_decode_t_bytes_memory_ptr at the offset read from the third head slot
AbiDecodeBytes(msg, offset) ==
    IF ~FitsIn(offset, 8) THEN Revert("abi: invalid tuple offset")
    ELSE IF ~FitsIn(offset, 3) \/ ~(Small(offset) + (WORD - 1) < Len(msg))
    THEN Revert("abi: invalid calldata array offset")
    ELSE LET off == Small(offset)
             length == ValueOf(WordAt(msg, off))
             src == off + WORD
         IN IF ~FitsIn(length, 8) THEN Revert("Panic(0x41)")
            ELSE IF ~FitsIn(length, 3) \/ src + Small(length) > Len(msg)
            THEN Revert("abi: invalid byte array length")
            ELSE Ok(Zeros(WORD), 0, SubSeq(msg, src + 1, src + Small(length)))

\* abi.decode(_msg, (uint256, uint16, bytes))
AbiDecodeTuple(msg) ==
    IF Len(msg) < 3 * WORD THEN Revert("abi: tuple data too short")
    ELSE LET value == ValueOf(WordAt(msg, 0))
             tag == ValueOf(WordAt(msg, WORD))
             tail == AbiDecodeBytes(msg, ValueOf(WordAt(msg, 2 * WORD)))
         IN IF ~FitsIn(tag, 2) THEN Revert("abi: uint16 out of range")
            ELSE IF ~tail.ok THEN tail
            ELSE Ok(value, tag[1] + 256 * tag[2], tail.returnOptions)

\* mutant: no Vanilla branch (every buffer decoded as the three-member tuple)
decodeABA_TupleOnly(msg) == AbiDecodeTuple(msg)

\* decodeABA(bytes calldata _msg)
decodeABA(msg) ==
    IF Len(msg) = WORD
    THEN Ok(ValueOf(msg), 0, <<>>)
    ELSE AbiDecodeTuple(msg)


\* ------------------------------------------------------------- input sets
\* byte strings of length n with recognisable content
Pat(n, k) == [i \in 1..n |-> (k + 7 * i) % 256]

OptLens == (0..MaxOptLen) \cup {WORD - 1, WORD, WORD + 1}

ReturnOptionsSet == {Pat(n, k) : n \in OptLens, k \in {3, 250}}

ValueSet == {U256(0), U256(1), U256(2), U256(100), U256(65536), INITIAL_BALL, MAX_U256}

\* 2^64: the first offset / length the ABI decoder refuses outright
TWO_64 == [i \in 1..WORD |-> IF i = 9 THEN 1 ELSE 0]

\* a buffer laid out as three head slots and a tail, cut to n bytes
Craft(v, t, off, len, data, n) ==
    Take(WordOf(v) \o WordOf(t) \o WordOf(off) \o WordOf(len) \o data, n)

CutSet == {0, 1, WORD - 1, WORD, WORD + 1, 2 * WORD, 3 * WORD - 1, 3 * WORD,
           3 * WORD + 1, 4 * WORD - 1, 4 * WORD, 4 * WORD + 1, 5 * WORD, 6 * WORD}

TagSet == {U256(0), U256(1), U256(ABA_TYPE), U256(3), U256(65535), U256(65536), MAX_U256}

OffsetSet == {U256(0), U256(WORD), U256(2 * WORD), U256(3 * WORD - 1), U256(3 * WORD),
              U256(3 * WORD + 1), U256(4 * WORD), U256(5 * WORD), U256(6 * WORD),
              U256(70000), TWO_64, MAX_U256}

LengthSet == {U256(0), U256(1), U256(WORD), U256(WORD + 1), U256(2 * WORD),
              U256(2 * WORD + 1), U256(70000), TWO_64, MAX_U256}

\* the calldata a caller may pass to a decode: arbitrary lengths, tags, offsets
\* and declared lengths
CraftedSet ==
    {Craft(v, U256(ABA_TYPE), U256(3 * WORD), U256(0), Pat(2 * WORD, 9), n) :
        v \in ValueSet, n \in CutSet}
    \cup {Craft(U256(100), t, U256(3 * WORD), U256(Len(r)), r \o Zeros(PadLen(Len(r))), 6 * WORD) :
        t \in TagSet, r \in ReturnOptionsSet}
    \cup {Craft(v, U256(ABA_TYPE), off, U256(1), Pat(2 * WORD, 9), n) :
        v \in {U256(0), U256(2), U256(WORD)}, off \in OffsetSet,
        n \in {3 * WORD, 4 * WORD, 5 * WORD, 6 * WORD}}
    \cup {Craft(U256(100), U256(ABA_TYPE), U256(3 * WORD), len, Pat(2 * WORD, 9), n) :
        len \in LengthSet, n \in CutSet}
    \cup {Pat(n, k) : n \in CutSet, k \in {0, 255}}


\* ------------------------------------------------------ options (MyOApp.sol)
\* OptionsBuilder.newOptions(): the type-3 header
newOptions == <<0, 3>>

\* OptionsBuilder.addExecutorLzReceiveOption(_gas, _value): appends the executor
\* entry [worker id 1][size][option type 1 = lzReceive][gas (, value if nonzero)]
addExecutorLzReceiveOption(options, gas, value) ==
    LET option == IF IsZero(value) THEN Packed(gas) ELSE Packed(gas) \o Packed(value)
        size == Len(option) + 1
    IN options \o <<1, size \div 256, size % 256, 1>> \o option

\* mutant: the enforced options are appended after the extra options
combineOptions_ExtraFirst(enf, extraOptions) ==
    IF Len(enf) = 0 THEN [ok |-> TRUE, bytes |-> extraOptions]
    ELSE IF Len(extraOptions) = 0 THEN [ok |-> TRUE, bytes |-> enf]
    ELSE IF Len(extraOptions) >= 2 /\ SubSeq(extraOptions, 1, 2) = newOptions
    THEN [ok |-> TRUE, bytes |-> extraOptions \o SubSeq(enf, 3, Len(enf))]
    ELSE [ok |-> FALSE, bytes |-> <<>>]

\* OAppOptionsType3.combineOptions(_eid, _msgType, _extraOptions), reached through
\* _combineOptionsMemory / _combineOptionsCalldata
combineOptions(enf, extraOptions) ==
    IF Len(enf) = 0 THEN [ok |-> TRUE, bytes |-> extraOptions]
    ELSE IF Len(extraOptions) = 0 THEN [ok |-> TRUE, bytes |-> enf]
    ELSE IF Len(extraOptions) >= 2 /\ SubSeq(extraOptions, 1, 2) = newOptions
    THEN [ok |-> TRUE, bytes |-> enf \o SubSeq(extraOptions, 3, Len(extraOptions))]
    ELSE [ok |-> FALSE, bytes |-> <<>>]

_combineOptionsMemory(enf, options) == combineOptions(enf, options)

\* mutant: the lzReceive entry carries the return gas estimate without the base gas
BuildOptions_NoBase(enf, returnGasEstimate, options) ==
    LET abaOptions == addExecutorLzReceiveOption(newOptions, returnGasEstimate, U128(0))
        packedOptions == abaOptions \o options
    IN combineOptions(enf, packedOptions)

\* mutant: unchecked arithmetic, 180000 + _returnGasEstimate wraps around
BuildOptions_Wrapping(enf, returnGasEstimate, options) ==
    LET abaOptions == addExecutorLzReceiveOption(newOptions,
                          AddDigits(U128(BASE_RECEIVE_GAS), returnGasEstimate), U128(0))
        packedOptions == abaOptions \o options
    IN _combineOptionsMemory(enf, packedOptions)

\* the options send and quote build: the contract's lzReceive entry, then the
\* caller's options, combined with the enforced options
\* (180000 + _returnGasEstimate is checked uint128 arithmetic)
BuildOptions(enf, returnGasEstimate, options) ==
    IF AddOverflows(U128(BASE_RECEIVE_GAS), returnGasEstimate)
    THEN [ok |-> FALSE, bytes |-> <<>>]
    ELSE LET abaOptions == addExecutorLzReceiveOption(newOptions,
                               AddDigits(U128(BASE_RECEIVE_GAS), returnGasEstimate), U128(0))
             packedOptions == abaOptions \o options
         IN _combineOptionsMemory(enf, packedOptions)

\* ---------------------------------------------------------- the transport
Chains == {"A", "B"}

\* peers[eid]: each contract's only peer is the contract on the other chain
Peer(c) == IF c = "A" THEN "B" ELSE "A"

\* MessagingFee(nativeFee, lzTokenFee)
MessagingFee(nativeFee, lzTokenFee) == [nativeFee |-> nativeFee, lzTokenFee |-> lzTokenFee]

\* _lzSend: _getPeerOrRevert, then endpoint.send{value: fee.nativeFee}: the endpoint
\* takes its price out of the native fee and transfers the excess to the refund
\* address; MyOApp has no receive function, so a transfer to it fails
_lzSend(self, dstEid, message, options, fee, refundAddress, price) ==
    IF dstEid # Peer(self) THEN [ok |-> FALSE, err |-> "NoPeer", sent |-> <<>>]
    ELSE IF fee.nativeFee < price
    THEN [ok |-> FALSE, err |-> "LZ_InsufficientFee", sent |-> <<>>]
    ELSE IF fee.nativeFee > price /\ refundAddress = "contract"
    THEN [ok |-> FALSE, err |-> "Transfer_NativeFailed", sent |-> <<>>]
    ELSE [ok |-> TRUE, err |-> "",
          sent |-> <<[srcEid |-> self, dstEid |-> dstEid, message |-> message,
                      options |-> options, nativeFee |-> fee.nativeFee,
                      lzTokenFee |-> fee.lzTokenFee, refundAddress |-> refundAddress]>>]

\* the native value of the lzReceive entries of the executor entries that start
\* at byte pos of a type-3 options blob: values of several entries add up; an
\* entry without a value field carries none
RECURSIVE LzReceiveValue(_, _)
LzReceiveValue(options, pos) ==
    IF pos + 3 > Len(options) THEN 0
    ELSE LET workerId == options[pos]
             size == options[pos + 1] * 256 + options[pos + 2]
             optionType == options[pos + 3]
             next == pos + 3 + size
             value == Packed(SubSeq(options, pos + 4 + GAS_BYTES, next - 1))
         IN IF size = 0 \/ next - 1 > Len(options) THEN 0
            ELSE (IF workerId = 1 /\ optionType = 1 /\ size = 1 + 2 * GAS_BYTES
                  THEN (IF FitsIn(value, 3) THEN Small(value) ELSE Pow256(3))
                  ELSE 0) + LzReceiveValue(options, next)

\* the msg.value of the executor's lzReceive call for a packet sent with these
\* options: "the forwarded value comes from the ExecutorLzReceiveOption in the
\* original message"
ForwardedValue(options) ==
    IF Len(options) >= 2 /\ SubSeq(options, 1, 2) = newOptions
    THEN LzReceiveValue(options, 3)
    ELSE 0

\* ------------------------------------------------------------- MyOApp.sol
Event(name, eid, old, new) == [name |-> name, eid |-> eid, old |-> old, new |-> new]

\* what a call did: the storage it leaves, what it handed to the transport and the
\* events it logged; a reverted call leaves nothing
Done(b, sent, events) == [ok |-> TRUE, err |-> "", ball |-> b, sent |-> sent, events |-> events]

Reverted(b, e) == [ok |-> FALSE, err |-> e, ball |-> b, sent |-> <<>>, events |-> <<>>]

\* mutant: the message is encoded before the ball is decremented
send_StaleBall(self, b, enf, dstEid, returnOptions, returnGasEstimate, options, value, price) ==
    IF IsZero(b) THEN Reverted(b, "Panic(0x11)")
    ELSE LET newBall == Dec(b)
             message == encodeABA(b, returnOptions)
             combined == BuildOptions(enf, returnGasEstimate, options)
             sending == _lzSend(self, dstEid, message, combined.bytes, MessagingFee(value, 0), "caller", price)
         IN IF ~combined.ok THEN Reverted(b, "options")
            ELSE IF ~sending.ok THEN Reverted(b, sending.err)
            ELSE Done(newBall, sending.sent, <<Event("BallServed", dstEid, b, newBall)>>)

\* mutant: a rejection by the transport is caught, the decrement stays
send_CommitOnFailure(self, b, enf, dstEid, returnOptions, returnGasEstimate, options, value, price) ==
    IF IsZero(b) THEN Reverted(b, "Panic(0x11)")
    ELSE LET newBall == Dec(b)
             message == encodeABA(newBall, returnOptions)
             combined == BuildOptions(enf, returnGasEstimate, options)
             sending == _lzSend(self, dstEid, message, combined.bytes, MessagingFee(value, 0), "caller", price)
         IN IF ~combined.ok THEN Reverted(b, "options")
            ELSE IF ~sending.ok THEN Reverted(newBall, sending.err)
            ELSE Done(newBall, sending.sent, <<Event("BallServed", dstEid, b, newBall)>>)

\* mutant: unchecked arithmetic, ball - 1 wraps around at 0
send_Unchecked(self, b, enf, dstEid, returnOptions, returnGasEstimate, options, value, price) ==
    LET newBall == IF IsZero(b) THEN MAX_U256 ELSE Dec(b)
        message == encodeABA(newBall, returnOptions)
        combined == BuildOptions(enf, returnGasEstimate, options)
        sending == _lzSend(self, dstEid, message, combined.bytes, MessagingFee(value, 0), "caller", price)
    IN IF ~combined.ok THEN Reverted(b, "options")
       ELSE IF ~sending.ok THEN Reverted(b, sending.err)
       ELSE Done(newBall, sending.sent, <<Event("BallServed", dstEid, b, newBall)>>)

\* send(_dstEid, _returnOptions, _returnGasEstimate, _options) payable
send(self, b, enf, dstEid, returnOptions, returnGasEstimate, options, value, price) ==
    IF IsZero(b) THEN Reverted(b, "Panic(0x11)")
    ELSE LET newBall == Dec(b)
             message == encodeABA(newBall, returnOptions)
             combined == BuildOptions(enf, returnGasEstimate, options)
             sending == _lzSend(self, dstEid, message, combined.bytes, MessagingFee(value, 0), "caller", price)
         IN IF ~combined.ok THEN Reverted(b, "options")
            ELSE IF ~sending.ok THEN Reverted(b, sending.err)
            ELSE Done(newBall, sending.sent, <<Event("BallServed", dstEid, b, newBall)>>)

\* mutant: the reply is sent with empty options instead of the decoded ones
_lzReceive_EmptyOptions(self, b, srcEid, payload, value, price) ==
    LET d == decodeABA(payload)
    IN IF ~d.ok THEN Reverted(b, d.err)
       ELSE LET received == Event("BallReceived", self, b, d.value)
            IN IF d.msgType = ABA_TYPE
               THEN IF IsZero(d.value) THEN Reverted(b, "Panic(0x11)")
                    ELSE LET newBall == Dec(d.value)
                             sending == _lzSend(self, srcEid, encode(newBall), <<>>,
                                                MessagingFee(value, 0), "contract", price)
                         IN IF ~sending.ok THEN Reverted(b, sending.err)
                            ELSE Done(newBall, sending.sent,
                                      <<received, Event("ReturnMessageSent", srcEid, newBall, newBall)>>)
               ELSE Done(d.value, <<>>, <<received>>)

\* mutant: the reply is triggered by any tag that is not the Vanilla sentinel
_lzReceive_AnyTag(self, b, srcEid, payload, value, price) ==
    LET d == decodeABA(payload)
    IN IF ~d.ok THEN Reverted(b, d.err)
       ELSE LET received == Event("BallReceived", self, b, d.value)
            IN IF d.msgType # 0
               THEN IF IsZero(d.value) THEN Reverted(b, "Panic(0x11)")
                    ELSE LET newBall == Dec(d.value)
                             sending == _lzSend(self, srcEid, encode(newBall), d.returnOptions,
                                                MessagingFee(value, 0), "contract", price)
                         IN IF ~sending.ok THEN Reverted(b, sending.err)
                            ELSE Done(newBall, sending.sent,
                                      <<received, Event("ReturnMessageSent", srcEid, newBall, newBall)>>)
               ELSE Done(d.value, <<>>, <<received>>)

\* mutant: a payload that does not decode is taken as the Vanilla value 0
_lzReceive_DefaultOnBadPayload(self, b, srcEid, payload, value, price) ==
    LET d == decodeABA(payload)
    IN IF ~d.ok THEN Done(U256(0), <<>>, <<Event("BallReceived", self, b, U256(0))>>)
       ELSE LET received == Event("BallReceived", self, b, d.value)
            IN IF d.msgType = ABA_TYPE
               THEN IF IsZero(d.value) THEN Reverted(b, "Panic(0x11)")
                    ELSE LET newBall == Dec(d.value)
                             returnMessage == encode(newBall)
                             sending == _lzSend(self, srcEid, returnMessage, d.returnOptions,
                                                MessagingFee(value, 0), "contract", price)
                         IN IF ~sending.ok THEN Reverted(b, sending.err)
                            ELSE Done(newBall, sending.sent,
                                      <<received, Event("ReturnMessageSent", srcEid, newBall, newBall)>>)
               ELSE Done(d.value, <<>>, <<received>>)

\* mutant: the reply is sent with no fee instead of the forwarded value
_lzReceive_ZeroFee(self, b, srcEid, payload, value, price) ==
    LET d == decodeABA(payload)
    IN IF ~d.ok THEN Reverted(b, d.err)
       ELSE LET received == Event("BallReceived", self, b, d.value)
            IN IF d.msgType = ABA_TYPE
               THEN IF IsZero(d.value) THEN Reverted(b, "Panic(0x11)")
                    ELSE LET newBall == Dec(d.value)
                             returnMessage == encode(newBall)
                             sending == _lzSend(self, srcEid, returnMessage, d.returnOptions,
                                                MessagingFee(0, 0), "contract", price)
                         IN IF ~sending.ok THEN Reverted(b, sending.err)
                            ELSE Done(newBall, sending.sent,
                                      <<received, Event("ReturnMessageSent", srcEid, newBall, newBall)>>)
               ELSE Done(d.value, <<>>, <<received>>)

\* mutant: the reply carries the received value, not the decremented one
_lzReceive_StaleReply(self, b, srcEid, payload, value, price) ==
    LET d == decodeABA(payload)
    IN IF ~d.ok THEN Reverted(b, d.err)
       ELSE LET received == Event("BallReceived", self, b, d.value)
            IN IF d.msgType = ABA_TYPE
               THEN IF IsZero(d.value) THEN Reverted(b, "Panic(0x11)")
                    ELSE LET newBall == Dec(d.value)
                             returnMessage == encode(d.value)
                             sending == _lzSend(self, srcEid, returnMessage, d.returnOptions,
                                                MessagingFee(value, 0), "contract", price)
                         IN IF ~sending.ok THEN Reverted(b, sending.err)
                            ELSE Done(newBall, sending.sent,
                                      <<received, Event("ReturnMessageSent", srcEid, newBall, newBall)>>)
               ELSE Done(d.value, <<>>, <<received>>)

\* mutant: the reply is itself an ABA message, which the origin answers in turn
_lzReceive_ABAReply(self, b, srcEid, payload, value, price) ==
    LET d == decodeABA(payload)
    IN IF ~d.ok THEN Reverted(b, d.err)
       ELSE LET received == Event("BallReceived", self, b, d.value)
            IN IF d.msgType = ABA_TYPE
               THEN IF IsZero(d.value) THEN Reverted(b, "Panic(0x11)")
                    ELSE LET newBall == Dec(d.value)
                             returnMessage == encodeABA(newBall, d.returnOptions)
                             sending == _lzSend(self, srcEid, returnMessage, d.returnOptions,
                                                MessagingFee(value, 0), "contract", price)
                         IN IF ~sending.ok THEN Reverted(b, sending.err)
                            ELSE Done(newBall, sending.sent,
                                      <<received, Event("ReturnMessageSent", srcEid, newBall, newBall)>>)
               ELSE Done(d.value, <<>>, <<received>>)

\* mutant: the reply carries value - 1 but the receiver stores the received value
_lzReceive_DecrementsReplyOnly(self, b, srcEid, payload, value, price) ==
    LET d == decodeABA(payload)
    IN IF ~d.ok THEN Reverted(b, d.err)
       ELSE LET received == Event("BallReceived", self, b, d.value)
            IN IF d.msgType = ABA_TYPE
               THEN IF IsZero(d.value) THEN Reverted(b, "Panic(0x11)")
                    ELSE LET newBall == Dec(d.value)
                             returnMessage == encode(newBall)
                             sending == _lzSend(self, srcEid, returnMessage, d.returnOptions,
                                                MessagingFee(value, 0), "contract", price)
                         IN IF ~sending.ok THEN Reverted(b, sending.err)
                            ELSE Done(d.value, sending.sent,
                                      <<received, Event("ReturnMessageSent", srcEid, newBall, newBall)>>)
               ELSE Done(d.value, <<>>, <<received>>)

\* mutant: an ABA message makes the receiver decrement its own ball
_lzReceive_FromOwnBall(self, b, srcEid, payload, value, price) ==
    LET d == decodeABA(payload)
    IN IF ~d.ok THEN Reverted(b, d.err)
       ELSE LET received == Event("BallReceived", self, b, d.value)
            IN IF d.msgType = ABA_TYPE
               THEN IF IsZero(b) THEN Reverted(b, "Panic(0x11)")
                    ELSE LET newBall == Dec(b)
                             returnMessage == encode(newBall)
                             sending == _lzSend(self, srcEid, returnMessage, d.returnOptions,
                                                MessagingFee(value, 0), "contract", price)
                         IN IF ~sending.ok THEN Reverted(b, sending.err)
                            ELSE Done(newBall, sending.sent,
                                      <<received, Event("ReturnMessageSent", srcEid, newBall, newBall)>>)
               ELSE Done(d.value, <<>>, <<received>>)

\* mutant: ReturnMessageSent is logged with the received value, before the decrement
_lzReceive_StaleEvent(self, b, srcEid, payload, value, price) ==
    LET d == decodeABA(payload)
    IN IF ~d.ok THEN Reverted(b, d.err)
       ELSE LET received == Event("BallReceived", self, b, d.value)
            IN IF d.msgType = ABA_TYPE
               THEN IF IsZero(d.value) THEN Reverted(b, "Panic(0x11)")
                    ELSE LET newBall == Dec(d.value)
                             returnMessage == encode(newBall)
                             sending == _lzSend(self, srcEid, returnMessage, d.returnOptions,
                                                MessagingFee(value, 0), "contract", price)
                         IN IF ~sending.ok THEN Reverted(b, sending.err)
                            ELSE Done(newBall, sending.sent,
                                      <<received, Event("ReturnMessageSent", srcEid, d.value, d.value)>>)
               ELSE Done(d.value, <<>>, <<received>>)

\* _lzReceive(_origin, _guid, payload, _executor, _extraData), msg.value = value
_lzReceive(self, b, srcEid, payload, value, price) ==
    LET d == decodeABA(payload)
    IN IF ~d.ok THEN Reverted(b, d.err)
       ELSE LET received == Event("BallReceived", self, b, d.value)
            IN IF d.msgType = ABA_TYPE
               THEN IF IsZero(d.value) THEN Reverted(b, "Panic(0x11)")
                    ELSE LET newBall == Dec(d.value)
                             returnMessage == encode(newBall)
                             sending == _lzSend(self, srcEid, returnMessage, d.returnOptions,
                                                MessagingFee(value, 0), "contract", price)
                         IN IF ~sending.ok THEN Reverted(b, sending.err)
                            ELSE Done(newBall, sending.sent,
                                      <<received, Event("ReturnMessageSent", srcEid, newBall, newBall)>>)
               ELSE Done(d.value, <<>>, <<received>>)

\* _quote: _getPeerOrRevert, then endpoint.quote(MessagingParams(dstEid, peer,
\* message, options, payInLzToken), address(this)); the endpoint has no lzToken set,
\* so a quote in lzToken is refused
_quote(self, dstEid, message, options, payInLzToken, price) ==
    IF dstEid # Peer(self) THEN [ok |-> FALSE, err |-> "NoPeer", quoted |-> <<>>]
    ELSE IF payInLzToken THEN [ok |-> FALSE, err |-> "LZ_LzTokenUnavailable", quoted |-> <<>>]
    ELSE [ok |-> TRUE, err |-> "",
          quoted |-> <<[srcEid |-> self, dstEid |-> dstEid, message |-> message,
                        options |-> options, payInLzToken |-> payInLzToken,
                        fee |-> MessagingFee(price, 0)]>>]

\* what a view call did: the storage it leaves and what it submitted to the fee oracle
Quoted(b, quoted) == [ok |-> TRUE, err |-> "", ball |-> b, quoted |-> quoted]

QuoteReverted(b, e) == [ok |-> FALSE, err |-> e, ball |-> b, quoted |-> <<>>]

\* mutant: the quoted message carries the current ball, not the decremented one
quote_CurrentBall(self, b, enf, dstEid, returnOptions, returnGasEstimate, options, payInLzToken, price) ==
    LET abaMessage == encodeABA(b, returnOptions)
        combined == BuildOptions(enf, returnGasEstimate, options)
        quoting == _quote(self, dstEid, abaMessage, combined.bytes, payInLzToken, price)
    IN IF ~combined.ok THEN QuoteReverted(b, "options")
       ELSE IF ~quoting.ok THEN QuoteReverted(b, quoting.err)
       ELSE Quoted(b, quoting.quoted)

\* mutant: the decremented ball is written to storage
quote_Committing(self, b, enf, dstEid, returnOptions, returnGasEstimate, options, payInLzToken, price) ==
    IF IsZero(b) THEN QuoteReverted(b, "Panic(0x11)")
    ELSE LET tempBall == Dec(b)
             abaMessage == encodeABA(tempBall, returnOptions)
             combined == BuildOptions(enf, returnGasEstimate, options)
             quoting == _quote(self, dstEid, abaMessage, combined.bytes, payInLzToken, price)
         IN IF ~combined.ok THEN QuoteReverted(tempBall, "options")
            ELSE IF ~quoting.ok THEN QuoteReverted(tempBall, quoting.err)
            ELSE Quoted(tempBall, quoting.quoted)

\* quote(_dstEid, _returnOptions, _returnGasEstimate, _options, _payInLzToken) view
quote(self, b, enf, dstEid, returnOptions, returnGasEstimate, options, payInLzToken, price) ==
    IF IsZero(b) THEN QuoteReverted(b, "Panic(0x11)")
    ELSE LET tempBall == Dec(b)
             abaMessage == encodeABA(tempBall, returnOptions)
             combined == BuildOptions(enf, returnGasEstimate, options)
             quoting == _quote(self, dstEid, abaMessage, combined.bytes, payInLzToken, price)
         IN IF ~combined.ok THEN QuoteReverted(b, "options")
            ELSE IF ~quoting.ok THEN QuoteReverted(b, quoting.err)
            ELSE Quoted(b, quoting.quoted)

\* mutant: the helper quotes the forward (ABA) message instead of the reply
quoteReturnGas_ABAMessage(self, b, srcEid, returnOptions, payInLzToken, price) ==
    IF IsZero(b) THEN QuoteReverted(b, "Panic(0x11)")
    ELSE LET tempBall == Dec(b)
             returnMessage == encodeABA(tempBall, returnOptions)
             quoting == _quote(self, srcEid, returnMessage, returnOptions, payInLzToken, price)
         IN IF ~quoting.ok THEN QuoteReverted(b, quoting.err)
            ELSE Quoted(b, quoting.quoted)

\* quoteReturnGas(_srcEid, _returnOptions, _payInLzToken) view
quoteReturnGas(self, b, srcEid, returnOptions, payInLzToken, price) ==
    IF IsZero(b) THEN QuoteReverted(b, "Panic(0x11)")
    ELSE LET tempBall == Dec(b)
             returnMessage == encode(tempBall)
             quoting == _quote(self, srcEid, returnMessage, returnOptions, payInLzToken, price)
         IN IF ~quoting.ok THEN QuoteReverted(b, quoting.err)
            ELSE Quoted(b, quoting.quoted)

\* ------------------------------------------------------------ call inputs
\* what the endpoint charges for one message, and the native values a caller or
\* the executor may attach: one unit short of it, exactly it, one unit over
NativeSet == (EndpointPrice - 1)..(EndpointPrice + 1)

PriceSet == {EndpointPrice}

MAX_U128 == [i \in 1..GAS_BYTES |-> 255]

\* type(uint128).max - 180000: the largest return gas estimate the base gas can be
\* added to
GasHeadroom == [i \in 1..GAS_BYTES |-> 255 - U128(BASE_RECEIVE_GAS)[i]]

\* return options and caller options: none, or a type-3 blob with one lzReceive entry
TypicalOptions == addExecutorLzReceiveOption(newOptions, U128(80000), U128(0))

EnforcedSet == {<<>>, TypicalOptions}

\* caller options that fund the reply: one lzReceive entry, appended as it is after
\* the contract's entry, whose native value is the endpoint's price
FundingOptions ==
    LET entry == addExecutorLzReceiveOption(newOptions, U128(0), U128(EndpointPrice))
    IN SubSeq(entry, 3, Len(entry))

\* the argument tuples of send: <<_dstEid, _returnOptions, _returnGasEstimate,
\* _options, msg.value>> on chain c
SendArgs(c) ==
    {<<Peer(c), TypicalOptions, U128(50000), <<>>, v>> : v \in NativeSet}
    \cup {<<Peer(c), <<>>, U128(50000), <<>>, EndpointPrice>>,
          <<c, TypicalOptions, U128(50000), <<>>, EndpointPrice>>,
          <<Peer(c), TypicalOptions, AddDigits(GasHeadroom, U128(1)), <<>>, EndpointPrice>>,
          <<Peer(c), TypicalOptions, U128(0), FundingOptions, EndpointPrice>>,
          <<Peer(c), Pat(WORD + 1, 3), U128(50000), Pat(1, 3), EndpointPrice>>}

\* the argument tuples of quote: <<_dstEid, _returnOptions, _returnGasEstimate,
\* _options, _payInLzToken>> on chain c
QuoteArgs(c) ==
    {<<Peer(c), TypicalOptions, U128(50000), <<>>, payInLzToken>> : payInLzToken \in BOOLEAN}
    \cup {<<Peer(c), Pat(WORD + 1, 3), U128(0), Pat(1, 3), FALSE>>,
          <<Peer(c), <<>>, GasHeadroom, FundingOptions, FALSE>>,
          <<c, TypicalOptions, U128(50000), <<>>, FALSE>>,
          <<Peer(c), TypicalOptions, MAX_U128, <<>>, FALSE>>}

\* the argument tuples of quoteReturnGas: <<_srcEid, _returnOptions, _payInLzToken>>
\* on chain c
ReturnQuoteArgs(c) ==
    {<<Peer(c), TypicalOptions, FALSE>>, <<Peer(c), <<>>, FALSE>>, <<c, TypicalOptions, FALSE>>}

\* well-formed ABA-shaped payloads with tag t
Tagged(v, t, r) ==
    Craft(v, t, U256(3 * WORD), U256(Len(r)), r \o Zeros(PadLen(Len(r))), 6 * WORD)

\* payloads a peer that is not this contract may deliver, with the native value
\* the executor forwards: Vanilla words, ABA-shaped buffers with any tag, and
\* malformed buffers
ForeignSet ==
    {<<encode(U256(0)), EndpointPrice>>,
     <<Tagged(U256(1), U256(0), Pat(1, 3)), EndpointPrice>>}
    \cup {<<Tagged(U256(100), t, Pat(1, 3)), EndpointPrice>> :
            t \in {U256(3), U256(65535), U256(65536)}}
    \cup {<<Tagged(U256(100), U256(ABA_TYPE), Pat(WORD + 1, 3)), v>> : v \in NativeSet}
    \cup {<<Tagged(U256(100), U256(ABA_TYPE), <<>>), EndpointPrice>>,
          <<Tagged(U256(0), U256(ABA_TYPE), <<>>), EndpointPrice>>,
          <<Craft(U256(0), U256(ABA_TYPE), U256(0), U256(0), <<>>, 3 * WORD), EndpointPrice>>,
          <<Craft(U256(5), U256(ABA_TYPE), U256(3 * WORD), U256(9), <<>>, 4 * WORD), EndpointPrice>>}

\* ------------------------------------------------------- the state machine
\* no run of the lz:oapp:send task in progress
NoTask ==
    [pc |-> "idle", chainType |-> "none", chain |-> "A", quoteCall |-> <<>>, nativeFee |-> 0,
     sendCall |-> <<>>, err |-> ""]

NoCall ==
    [op |-> "none", chain |-> "A", peer |-> "A", ok |-> FALSE, err |-> "", oldBall |-> U256(0),
     payload |-> <<>>, returnOptions |-> <<>>, returnGasEstimate |-> U128(0), options |-> <<>>,
     value |-> 0, price |-> 0, sent |-> <<>>, events |-> <<>>, quoted |-> <<>>, source |-> "none",
     roundBall |-> <<>>]

\* the contracts as deployed, nothing in flight
AppIdle ==
    /\ ball = [c \in Chains |-> INITIAL_BALL]
    /\ enforced = <<>>
    /\ net = [c \in Chains |-> <<>>]
    /\ last = NoCall
    /\ nCalls = 0
    /\ task = NoTask

CodecIdle ==
    /\ cBuf = <<>>
    /\ cSrc = "crafted"
    /\ cVal = U256(0)
    /\ cOpts = <<>>
    /\ cOp = "none"
    /\ cOut = NotCalled

Init ==
    /\ ball = [c \in Chains |-> INITIAL_BALL]
    /\ enforced \in EnforcedSet
    /\ net = [c \in Chains |-> <<>>]
    /\ last = NoCall
    /\ nCalls = 0
    /\ task = NoTask
    /\ CodecIdle

\* the storage and the network after a call on chain c with outcome r
Apply(c, r, rest) ==
    /\ ball' = [ball EXCEPT ![c] = r.ball]
    /\ net' = IF r.sent = <<>> THEN [net EXCEPT ![c] = rest]
              ELSE [net EXCEPT ![c] = rest, ![Peer(c)] = Append(net[Peer(c)], r.sent[1])]

\* nothing is in flight: a send made now starts a round trip of its own
Quiet == \A c \in Chains : net[c] = <<>>

\* a caller on chain c calls send; last.roundBall keeps the ball the sender held
\* when the send started a round trip of its own, until another call interferes
Send(c) ==
    /\ nCalls < MaxCalls
    /\ \E args \in SendArgs(c), price \in PriceSet :
          LET dstEid == args[1]
              returnOptions == args[2]
              returnGasEstimate == args[3]
              options == args[4]
              value == args[5]
          IN \E r \in {send(c, ball[c], enforced, dstEid, returnOptions, returnGasEstimate,
                            options, value, price)} :
             /\ Apply(c, r, net[c])
             /\ last' = [op |-> "send", chain |-> c, peer |-> dstEid, ok |-> r.ok, err |-> r.err,
                         oldBall |-> ball[c], payload |-> <<>>, returnOptions |-> returnOptions,
                         returnGasEstimate |-> returnGasEstimate, options |-> options,
                         value |-> value, price |-> price, sent |-> r.sent, events |-> r.events,
                         quoted |-> <<>>, source |-> "caller",
                         roundBall |-> IF r.ok /\ Quiet THEN ball[c] ELSE <<>>]
    /\ nCalls' = nCalls + 1
    /\ UNCHANGED enforced
    /\ UNCHANGED task
    /\ UNCHANGED codecVars

\* the executor on chain c delivers the oldest packet in flight to c, forwarding
\* the native value the packet's options ask for
LzReceive(c) ==
    /\ net[c] # <<>>
    /\ \E price \in PriceSet :
          LET packet == Head(net[c])
              value == ForwardedValue(packet.options)
          IN \E r \in {_lzReceive(c, ball[c], packet.srcEid, packet.message, value, price)} :
             /\ Apply(c, r, Tail(net[c]))
             /\ last' = [op |-> "receive", chain |-> c, peer |-> packet.srcEid, ok |-> r.ok,
                         err |-> r.err, oldBall |-> ball[c], payload |-> packet.message,
                         returnOptions |-> <<>>, returnGasEstimate |-> U128(0),
                         options |-> packet.options, value |-> value, price |-> price,
                         sent |-> r.sent, events |-> r.events, quoted |-> <<>>, source |-> "net",
                         roundBall |-> last.roundBall]
    /\ UNCHANGED <<enforced, nCalls>>
    /\ UNCHANGED task
    /\ UNCHANGED codecVars

\* the executor on chain c delivers a payload that the peer built otherwise than
\* by this contract's send
LzReceiveForeign(c) ==
    /\ nCalls < MaxCalls
    /\ \E delivery \in ForeignSet, price \in PriceSet :
          LET payload == delivery[1]
              value == delivery[2]
          IN \E r \in {_lzReceive(c, ball[c], Peer(c), payload, value, price)} :
             /\ Apply(c, r, net[c])
             /\ last' = [op |-> "receive", chain |-> c, peer |-> Peer(c), ok |-> r.ok,
                         err |-> r.err, oldBall |-> ball[c], payload |-> payload,
                         returnOptions |-> <<>>, returnGasEstimate |-> U128(0),
                         options |-> <<>>, value |-> value, price |-> price,
                         sent |-> r.sent, events |-> r.events, quoted |-> <<>>,
                         source |-> "foreign", roundBall |-> <<>>]
    /\ nCalls' = nCalls + 1
    /\ UNCHANGED enforced
    /\ UNCHANGED task
    /\ UNCHANGED codecVars

\* a caller on chain c calls the view function quote
Quote(c) ==
    /\ \E args \in QuoteArgs(c), price \in PriceSet :
          LET dstEid == args[1]
              returnOptions == args[2]
              returnGasEstimate == args[3]
              options == args[4]
              payInLzToken == args[5]
          IN \E r \in {quote(c, ball[c], enforced, dstEid, returnOptions, returnGasEstimate,
                             options, payInLzToken, price)} :
             /\ Apply(c, [ball |-> r.ball, sent |-> <<>>], net[c])
             /\ last' = [op |-> "quote", chain |-> c, peer |-> dstEid, ok |-> r.ok, err |-> r.err,
                         oldBall |-> ball[c], payload |-> <<>>, returnOptions |-> returnOptions,
                         returnGasEstimate |-> returnGasEstimate, options |-> options,
                         value |-> 0, price |-> price, sent |-> <<>>, events |-> <<>>,
                         quoted |-> r.quoted, source |-> "caller", roundBall |-> last.roundBall]
    /\ UNCHANGED <<enforced, nCalls>>
    /\ UNCHANGED task
    /\ UNCHANGED codecVars

\* a caller on chain c calls the view function quoteReturnGas
QuoteReturnGas(c) ==
    /\ \E args \in ReturnQuoteArgs(c), price \in PriceSet :
          LET srcEid == args[1]
              returnOptions == args[2]
              payInLzToken == args[3]
          IN \E r \in {quoteReturnGas(c, ball[c], srcEid, returnOptions, payInLzToken, price)} :
             /\ Apply(c, [ball |-> r.ball, sent |-> <<>>], net[c])
             /\ last' = [op |-> "quoteReturnGas", chain |-> c, peer |-> srcEid, ok |-> r.ok,
                         err |-> r.err, oldBall |-> ball[c], payload |-> <<>>,
                         returnOptions |-> returnOptions, returnGasEstimate |-> U128(0),
                         options |-> <<>>, value |-> 0, price |-> price, sent |-> <<>>,
                         events |-> <<>>, quoted |-> r.quoted, source |-> "caller",
                         roundBall |-> last.roundBall]
    /\ UNCHANGED <<enforced, nCalls>>
    /\ UNCHANGED task
    /\ UNCHANGED codecVars

CallSend == \E c \in Chains : Send(c)

CallQuote == \E c \in Chains : Quote(c)

CallQuoteReturnGas == \E c \in Chains : QuoteReturnGas(c)

Deliver == \E c \in Chains : LzReceive(c)

\* chain B's peer path also carries payloads of other builds of the peer (the v1
\* contract, the Solana program)
DeliverForeign == LzReceiveForeign("B")

Next == CallSend \/ Deliver \/ DeliverForeign

Spec == Init /\ [][Next]_vars

\* the two peers alone: every message in flight was built by the other contract
PeerNext == CallSend \/ Deliver

PeerSpec == Init /\ [][PeerNext]_vars

\* the view functions, called in any storage state: the ball is whatever the peer's
\* messages have left
BallSet == {INITIAL_BALL, U256(0), U256(1), U256(100)}

ViewInit ==
    /\ ball \in [Chains -> BallSet]
    /\ enforced \in EnforcedSet
    /\ net = [c \in Chains |-> <<>>]
    /\ last = NoCall
    /\ nCalls = 0
    /\ task = NoTask
    /\ CodecIdle

ViewNext == CallQuote \/ CallQuoteReturnGas

ViewSpec == ViewInit /\ [][ViewNext]_vars

\* ------------------------------------------- the lz:oapp:send task (hardhat)
\* const returnGasEstimate = 1200000
RETURN_GAS_ESTIMATE == 1200000

\* the endpoint ids the task may be given as fromEid: the two EVM chains, Solana and
\* a chain of another type
TaskEids == Chains \cup {"Solana", "Aptos"}

\* endpointIdToChainType(fromEid)
endpointIdToChainType(eid) ==
    IF eid \in Chains THEN "evm" ELSE IF eid = "Solana" THEN "solana" ELSE "aptos"

\* myOApp.quote(dstEid, returnOptions, returnGasEstimate, options, false)
QuoteCall(dstEid) ==
    [dstEid |-> dstEid, returnOptions |-> newOptions,
     returnGasEstimate |-> U128(RETURN_GAS_ESTIMATE), options |-> newOptions,
     payInLzToken |-> FALSE]

\* mutant: the transaction is sent without the quoted fee attached
SendCall_NoValue(dstEid, nativeFee) ==
    [dstEid |-> dstEid, returnOptions |-> newOptions,
     returnGasEstimate |-> U128(RETURN_GAS_ESTIMATE), options |-> newOptions, value |-> 0]

\* myOApp.send(dstEid, returnOptions, returnGasEstimate, options, { value: nativeFee })
SendCall(dstEid, nativeFee) ==
    [dstEid |-> dstEid, returnOptions |-> newOptions,
     returnGasEstimate |-> U128(RETURN_GAS_ESTIMATE), options |-> newOptions,
     value |-> nativeFee]

\* action: dispatch on the chain type of fromEid; on the EVM path sendFromEvm runs
\* up to the answer of its quote call, against the contract of the network hardhat
\* is connected to. The Solana path goes to the Solana program and touches no
\* contract; any other chain type throws
TaskAction ==
    /\ task.pc = "idle"
    /\ nCalls < MaxCalls
    /\ \E fromEid \in TaskEids, dstEid \in Chains, c \in Chains, price \in PriceSet :
          LET chainType == endpointIdToChainType(fromEid)
              q == QuoteCall(dstEid)
          IN IF chainType = "solana"
             THEN /\ task' = [NoTask EXCEPT !.pc = "solana", !.chainType = chainType]
                  /\ UNCHANGED <<ball, net, last>>
             ELSE IF chainType = "evm"
             THEN \E r \in {quote(c, ball[c], enforced, q.dstEid, q.returnOptions,
                                  q.returnGasEstimate, q.options, q.payInLzToken, price)} :
                     /\ task' = [pc |-> IF r.ok THEN "quoted" ELSE "failed",
                                 chainType |-> chainType, chain |-> c, quoteCall |-> <<q>>,
                                 nativeFee |-> IF r.ok THEN r.quoted[1].fee.nativeFee ELSE 0,
                                 sendCall |-> <<>>, err |-> r.err]
                     /\ Apply(c, [ball |-> r.ball, sent |-> <<>>], net[c])
                     /\ last' = [op |-> "quote", chain |-> c, peer |-> q.dstEid, ok |-> r.ok,
                                 err |-> r.err, oldBall |-> ball[c], payload |-> <<>>,
                                 returnOptions |-> q.returnOptions,
                                 returnGasEstimate |-> q.returnGasEstimate,
                                 options |-> q.options, value |-> 0, price |-> price,
                                 sent |-> <<>>, events |-> <<>>, quoted |-> r.quoted,
                                 source |-> "task", roundBall |-> last.roundBall]
             ELSE /\ task' = [NoTask EXCEPT !.pc = "failed", !.chainType = chainType,
                                            !.err = "Unsupported ChainType for fromEid"]
                  /\ UNCHANGED <<ball, net, last>>
    /\ UNCHANGED <<enforced, nCalls>>
    /\ UNCHANGED codecVars

\* sendFromEvm after the quote: the send transaction, at the price the endpoint
\* asks by then
TaskSendFromEvm ==
    /\ task.pc = "quoted"
    /\ \E price \in PriceSet \cup {EndpointPrice + 1} :
          LET c == task.chain
              call == SendCall(task.quoteCall[1].dstEid, task.nativeFee)
          IN \E r \in {send(c, ball[c], enforced, call.dstEid, call.returnOptions,
                            call.returnGasEstimate, call.options, call.value, price)} :
             /\ Apply(c, r, net[c])
             /\ last' = [op |-> "send", chain |-> c, peer |-> call.dstEid, ok |-> r.ok,
                         err |-> r.err, oldBall |-> ball[c], payload |-> <<>>,
                         returnOptions |-> call.returnOptions,
                         returnGasEstimate |-> call.returnGasEstimate,
                         options |-> call.options, value |-> call.value, price |-> price,
                         sent |-> r.sent, events |-> r.events, quoted |-> <<>>,
                         source |-> "task", roundBall |-> IF r.ok /\ Quiet THEN ball[c] ELSE <<>>]
             /\ task' = [task EXCEPT !.pc = IF r.ok THEN "sent" ELSE "failed",
                                     !.sendCall = <<call>>, !.err = r.err]
    /\ nCalls' = nCalls + 1
    /\ UNCHANGED enforced
    /\ UNCHANGED codecVars

\* the task's process ends: with the receipt, or with the error it threw
TaskEnd ==
    /\ task.pc \in {"sent", "failed", "solana"}
    /\ task' = NoTask
    /\ UNCHANGED <<ball, enforced, net, last, nCalls>>
    /\ UNCHANGED codecVars

TaskNext == TaskAction \/ TaskSendFromEvm \/ TaskEnd \/ Deliver

TaskSpec == Init /\ [][TaskNext]_vars

\* ----------------------------------------------------- codec specification
CodecInit ==
    /\ cBuf \in CraftedSet
    /\ cSrc = "crafted"
    /\ cVal = U256(0)
    /\ cOpts = <<>>
    /\ cOp = "none"
    /\ cOut = NotCalled
    /\ AppIdle

CallEncode ==
    \E v \in ValueSet :
        /\ cBuf' = encode(v)
        /\ cSrc' = "encode"
        /\ cVal' = v
        /\ cOpts' = <<>>
        /\ cOp' = "encode"
        /\ cOut' = NotCalled
        /\ UNCHANGED appVars

CallEncodeABA ==
    \E v \in ValueSet, r \in ReturnOptionsSet :
        /\ cBuf' = encodeABA(v, r)
        /\ cSrc' = "encodeABA"
        /\ cVal' = v
        /\ cOpts' = r
        /\ cOp' = "encodeABA"
        /\ cOut' = NotCalled
        /\ UNCHANGED appVars

CallDecode ==
    /\ cOp' = "decode"
    /\ cOut' = decode(cBuf)
    /\ UNCHANGED <<cBuf, cSrc, cVal, cOpts>>
    /\ UNCHANGED appVars

CallDecodeABA ==
    /\ cOp' = "decodeABA"
    /\ cOut' = decodeABA(cBuf)
    /\ UNCHANGED <<cBuf, cSrc, cVal, cOpts>>
    /\ UNCHANGED appVars

CodecNext == CallEncode \/ CallEncodeABA \/ CallDecode \/ CallDecodeABA

CodecSpec == CodecInit /\ [][CodecNext]_vars



\* --------------------------- the Solana codec (uint256_msg_codec.rs, planned)
\* Result<AbaMessage>: Ok(AbaMessage { ball, msg_type, return_options }) or Err(e)
AbaMessage(b, msg_type, return_options) ==
    [ok |-> TRUE, err |-> "", ball |-> b, msg_type |-> msg_type,
     return_options |-> return_options]

Err(e) == [ok |-> FALSE, err |-> e, ball |-> <<>>, msg_type |-> 0, return_options |-> <<>>]

\* an index past the end of a slice: the program panics and the instruction aborts
IndexOutOfBounds == Err("panic: index out of bounds")

\* n.to_be_bytes() for an integer of k <= 4 bytes
to_be_bytes(n, k) == [i \in 1..k |-> (n \div Pow256(k - i)) % 256]

\* from_be_bytes of at most 3 bytes
from_be_bytes(bytes) ==
    LET n == Len(bytes)
    IN (IF n >= 1 THEN bytes[n] ELSE 0) + (IF n >= 2 THEN 256 * bytes[n - 1] ELSE 0)
       + (IF n >= 3 THEN 65536 * bytes[n - 2] ELSE 0)

\* mutant: the layout of the comment in encode_aba, without the length prefix
encode_aba_NoPrefix(b, return_options) ==
    b \o to_be_bytes(ABA_TYPE, 2) \o return_options

\* encode_aba(ball, return_options): ball, msg_type, u32 length prefix, options
encode_aba(b, return_options) ==
    b \o to_be_bytes(ABA_TYPE, 2) \o to_be_bytes(Len(return_options), 4) \o return_options

\* decode_aba(message). message[34..37] is indexed as soon as the length exceeds 34;
\* an options_len of 2^24 or more (first prefix byte nonzero) exceeds every message
decode_aba(message) ==
    IF Len(message) < 34 THEN Err("InvalidMessageLength")
    ELSE LET b == SubSeq(message, 1, 32)
             msg_type == from_be_bytes(SubSeq(message, 33, 34))
         IN IF Len(message) > 34
            THEN IF Len(message) < 38 THEN IndexOutOfBounds
                 ELSE LET options_len == from_be_bytes(SubSeq(message, 36, 38))
                      IN IF message[35] # 0 \/ Len(message) < 38 + options_len
                         THEN Err("InvalidMessageLength")
                         ELSE AbaMessage(b, msg_type, SubSeq(message, 39, 38 + options_len))
            ELSE AbaMessage(b, msg_type, <<>>)

\* U256::saturating_sub(U256::ONE)
saturating_sub(u) == IF IsZero(u) THEN u ELSE Dec(u)

\* what LzReceive::apply did with a message: the branch it took, the ball it stored
\* and the ball of the reply it prepared (empty when it prepared none)
Applied(path, b, new_ball) ==
    [ok |-> path # "abort", path |-> path, ball |-> b, new_ball |-> new_ball]

\* LzReceive::apply: match decode_aba(&params.message) { Ok(aba_msg) => ..,
\* Err(_) => fallback to the Vanilla decode }; a panic is not an Err
lz_receive_apply(message) ==
    LET decoded == decode_aba(message)
    IN IF decoded = IndexOutOfBounds THEN Applied("abort", <<>>, <<>>)
       ELSE IF decoded.ok
       THEN IF decoded.msg_type = ABA_TYPE
            THEN Applied("aba", decoded.ball, WordOf(saturating_sub(ValueOf(decoded.ball))))
            ELSE Applied("aba", decoded.ball, <<>>)
       ELSE Applied("vanilla", <<>>, <<>>)

\* ------------------------------------------- the inspection scripts' decoder
\* Uint8Array.slice(from, to): clamped to the array
slice(a, from, to) == IF from >= Len(a) THEN <<>> ELSE SubSeq(a, from + 1, Min(to, Len(a)))

\* ethers.BigNumber.from(bytes) of at most 32 bytes: the big-endian unsigned integer
BigNumberFrom(bytes) ==
    [i \in 1..WORD |-> IF i <= Len(bytes) THEN bytes[Len(bytes) + 1 - i] ELSE 0]

\* what a script printed: whether it reported the return options, the error line,
\* and the fields it read
Report(ok, error, b, msgType, offset, returnOptions) ==
    [ok |-> ok, error |-> error, ball |-> b, msgType |-> msgType, offset |-> offset,
     returnOptions |-> returnOptions]

\* offset.gte(128) && offset.lte(length)
OffsetAccepted(offset, length) ==
    /\ ~(FitsIn(offset, 3) /\ Small(offset) < 4 * WORD)
    /\ FitsIn(offset, 3) /\ Small(offset) <= length

\* the end of slice(offsetNum + 32, offsetNum + 32 + lenNum)
SliceEnd(offsetNum, len, length) ==
    IF FitsIn(len, 3) THEN offsetNum + WORD + Small(len) ELSE length

\* decodeMessage (decode-lz-message.ts), the ABA part: a message below 128 bytes is
\* skipped without a line
decodeMessage(messageBytes) ==
    IF Len(messageBytes) < 4 * WORD
    THEN Report(FALSE, "", U256(0), U256(0), U256(0), <<>>)
    ELSE LET b == BigNumberFrom(slice(messageBytes, 0, 32))
             msgType == BigNumberFrom(slice(slice(messageBytes, 32, 64), 30, 32))
             offsetValue == BigNumberFrom(slice(slice(messageBytes, 64, 96), 24, 32))
         IN IF OffsetAccepted(offsetValue, Len(messageBytes))
            THEN LET offsetNum == Small(offsetValue)
                     lenBytes == slice(messageBytes, offsetNum, offsetNum + 32)
                     len == BigNumberFrom(slice(lenBytes, 24, 32))
                 IN IF ~IsZero(len)
                    THEN Report(TRUE, "", b, msgType, offsetValue,
                                slice(messageBytes, offsetNum + 32,
                                      SliceEnd(offsetNum, len, Len(messageBytes))))
                    ELSE Report(TRUE, "", b, msgType, offsetValue, <<>>)
            ELSE Report(FALSE, "Invalid offset", b, msgType, offsetValue, <<>>)

\* inspectTransaction, the ABA part: as decodeMessage, with the length word and the
\* declared bytes checked against the payload length
inspectTransaction(actualPayload) ==
    IF Len(actualPayload) < 4 * WORD
    THEN Report(FALSE, "Payload too short for ABA format", U256(0), U256(0), U256(0), <<>>)
    ELSE LET b == BigNumberFrom(slice(actualPayload, 0, 32))
             msgType == BigNumberFrom(slice(slice(actualPayload, 32, 64), 30, 32))
             offset == BigNumberFrom(slice(slice(actualPayload, 64, 96), 24, 32))
         IN IF OffsetAccepted(offset, Len(actualPayload))
            THEN LET offsetNum == Small(offset)
                     lenBytes == slice(actualPayload, offsetNum, offsetNum + 32)
                     len == BigNumberFrom(slice(lenBytes, 24, 32))
                 IN IF Len(actualPayload) >= offsetNum + 32
                    THEN IF ~IsZero(len) /\ FitsIn(len, 3)
                            /\ Len(actualPayload) >= offsetNum + 32 + Small(len)
                         THEN Report(TRUE, "", b, msgType, offset,
                                     slice(actualPayload, offsetNum + 32,
                                           offsetNum + 32 + Small(len)))
                         ELSE Report(TRUE, "", b, msgType, offset, <<>>)
                    ELSE Report(FALSE, "Payload too short for offset", b, msgType, offset, <<>>)
            ELSE Report(FALSE, "Invalid offset value", b, msgType, offset, <<>>)

\* ------------------------------------------------ wire format specification
\* messages as the Solana program may receive them: cut around the 34-byte header
\* and the 4-byte prefix, with prefixes that declare more than the message holds
PrefixSet == {<<0, 0, 0, 0>>, <<0, 0, 0, 1>>, <<0, 0, 0, 2>>, <<0, 0, 0, 3>>, <<0, 0, 1, 0>>,
              <<1, 0, 0, 0>>, <<255, 255, 255, 255>>}

SolanaCraftedSet ==
    {Take(WordOf(U256(100)) \o to_be_bytes(t, 2) \o prefix \o Pat(2, 9), n) :
        t \in {0, 1, ABA_TYPE, 513}, prefix \in PrefixSet, n \in {33, 34, 35, 36, 37, 38, 39, 40}}
    \cup {Pat(n, k) : n \in {0, WORD - 1, WORD, 34, 35, 38}, k \in {0, 255}}

\* payloads as the scripts may find them in a transaction
ScriptCraftedSet ==
    {Craft(U256(100), U256(ABA_TYPE), off, len, Pat(2 * WORD, 9), n) :
        off \in {U256(3 * WORD), U256(4 * WORD - 1), U256(4 * WORD), U256(4 * WORD + 1),
                 U256(5 * WORD), U256(70000), TWO_64},
        len \in {U256(0), U256(1), U256(WORD), U256(WORD + 1), U256(70000), MAX_U256},
        n \in {4 * WORD - 1, 4 * WORD, 5 * WORD, 5 * WORD + 1, 6 * WORD}}

WireInit ==
    /\ cBuf \in SolanaCraftedSet \cup ScriptCraftedSet
    /\ cSrc = "crafted"
    /\ cVal = U256(0)
    /\ cOpts = <<>>
    /\ cOp = "none"
    /\ cOut = NotCalled
    /\ AppIdle

CallEncodeAba ==
    \E v \in ValueSet, r \in ReturnOptionsSet :
        /\ cBuf' = encode_aba(WordOf(v), r)
        /\ cSrc' = "encode_aba"
        /\ cVal' = v
        /\ cOpts' = r
        /\ cOp' = "encode_aba"
        /\ cOut' = NotCalled
        /\ UNCHANGED appVars

CallDecodeAba ==
    /\ cOp' = "decode_aba"
    /\ cOut' = decode_aba(cBuf)
    /\ UNCHANGED <<cBuf, cSrc, cVal, cOpts>>
    /\ UNCHANGED appVars

CallLzReceiveApply ==
    /\ cOp' = "lz_receive"
    /\ cOut' = lz_receive_apply(cBuf)
    /\ UNCHANGED <<cBuf, cSrc, cVal, cOpts>>
    /\ UNCHANGED appVars

CallDecodeMessage ==
    /\ cOp' = "decodeMessage"
    /\ cOut' = decodeMessage(cBuf)
    /\ UNCHANGED <<cBuf, cSrc, cVal, cOpts>>
    /\ UNCHANGED appVars

CallInspectTransaction ==
    /\ cOp' = "inspectTransaction"
    /\ cOut' = inspectTransaction(cBuf)
    /\ UNCHANGED <<cBuf, cSrc, cVal, cOpts>>
    /\ UNCHANGED appVars

WireNext ==
    \/ CallEncode
    \/ CallEncodeABA
    \/ CallEncodeAba
    \/ CallDecodeAba
    \/ CallLzReceiveApply
    \/ CallDecodeMessage
    \/ CallInspectTransaction

WireSpec == WireInit /\ [][WireNext]_vars

\* ================================================================ properties
\* is the unsigned integer u below / above the natural n (n < 256^3)
Below(u, n) == FitsIn(u, 3) /\ Small(u) < n

Above(u, n) == ~FitsIn(u, 3) \/ Small(u) > n

\* the head slots of a buffer of at least 96 bytes, as unsigned integers
ValueSlot(buf) == ValueOf(SubSeq(buf, 1, WORD))

TagSlot(buf) == ValueOf(SubSeq(buf, WORD + 1, 2 * WORD))

OffsetSlot(buf) == ValueOf(SubSeq(buf, 2 * WORD + 1, 3 * WORD))

\* the word the decoder reads as the returnOptions length, when the offset slot
\* leaves room for it
HasLengthWord(buf) ==
    /\ Len(buf) >= 3 * WORD
    /\ FitsIn(OffsetSlot(buf), 3)
    /\ Small(OffsetSlot(buf)) + WORD <= Len(buf)

DeclaredLength(buf) ==
    ValueOf(SubSeq(buf, Small(OffsetSlot(buf)) + 1, Small(OffsetSlot(buf)) + WORD))

\* bytes of the buffer after the length word
Remaining(buf) == Len(buf) - (Small(OffsetSlot(buf)) + WORD)

\* a structurally valid ABA-shaped buffer: three head slots, the tail at 96, the
\* declared bytes inside the buffer
ABAShaped(buf) ==
    /\ Len(buf) >= 4 * WORD
    /\ OffsetSlot(buf) = U256(3 * WORD)
    /\ ~Above(DeclaredLength(buf), Remaining(buf))

ReceiveDone == last.op = "receive" /\ last.ok

\* C1: every successful receive of a message decoded with msgType = ABA_TYPE hands
\* exactly one reply to the transport, with the decoded returnOptions as its
\* options, unchanged; a successful receive of a Vanilla (32-byte) message hands
\* nothing to the transport.
C1_ReplyExactlyOnABA ==
    ReceiveDone =>
        LET d == decodeABA(last.payload)
            out == net[last.peer]
        IN /\ d.msgType = ABA_TYPE =>
                /\ Len(last.sent) = 1
                /\ last.sent[1].options = d.returnOptions
                /\ Len(out) >= 1 /\ out[Len(out)] = last.sent[1]
           /\ Len(last.payload) = WORD => last.sent = <<>>

C1_Witness ==
    /\ ReceiveDone
    /\ decodeABA(last.payload).msgType = ABA_TYPE
    /\ Len(last.sent) = 1
    /\ last.sent[1].options # <<>>

\* C2: decodeABA(encodeABA(v, r)) = (v, ABA_TYPE, r) for every value v and every
\* byte string r, the empty one included.
C2_RoundTripABA ==
    (cSrc = "encodeABA" /\ cOp = "decodeABA") =>
        /\ cOut.ok
        /\ cOut.value = cVal
        /\ cOut.msgType = ABA_TYPE
        /\ cOut.returnOptions = cOpts

C2_Witness ==
    /\ cSrc = "encodeABA" /\ cOp = "decodeABA"
    /\ cOut.ok
    /\ Len(cOpts) = WORD + 1
    /\ cVal = INITIAL_BALL

\* C3: decode(encode(v)) = v for every 256-bit v, and encode(v) is exactly 32
\* bytes long.
C3_RoundTripVanilla ==
    /\ cSrc = "encode" => Len(cBuf) = WORD
    /\ (cSrc = "encode" /\ cOp = "decode") => (cOut.ok /\ cOut.value = cVal)

C3_Witness ==
    /\ cSrc = "encode" /\ cOp = "decode"
    /\ cOut.ok
    /\ cVal = INITIAL_BALL

\* C4: decodeABA of any buffer of exactly 32 bytes succeeds and returns the 32
\* bytes read as a big-endian integer, msgType 0 and empty returnOptions.
C4_Vanilla32 ==
    (cOp = "decodeABA" /\ Len(cBuf) = WORD) =>
        /\ cOut.ok
        /\ \A i \in 1..WORD : cOut.value[i] = cBuf[WORD + 1 - i]
        /\ cOut.msgType = 0
        /\ cOut.returnOptions = <<>>

C4_Witness ==
    /\ cOp = "decodeABA" /\ Len(cBuf) = WORD
    /\ cSrc = "crafted"
    /\ cBuf[1] # 0
    /\ cOut.ok

\* C5: the Vanilla-only decode fails with InvalidMsgLength for every input whose
\* length is not exactly 32 bytes and succeeds for every input of 32 bytes.
C5_DecodeLength ==
    cOp = "decode" =>
        /\ Len(cBuf) = WORD => cOut.ok
        /\ Len(cBuf) # WORD => (~cOut.ok /\ cOut.err = "InvalidMsgLength")

C5_Witness ==
    /\ cOp = "decode"
    /\ Len(cBuf) > WORD
    /\ cOut.err = "InvalidMsgLength"

\* C6: decodeABA fails for every buffer whose length is not 32 and below 96, and
\* for every buffer that holds the three head slots but no tail length word after
\* them (96 to 127 bytes).
C6_TruncatedRejected ==
    (cOp = "decodeABA" /\ Len(cBuf) # WORD /\ Len(cBuf) < 4 * WORD) => ~cOut.ok

\* C7: decodeABA fails for every non-32-byte buffer whose tail offset (third head
\* slot) is below 96 or above the buffer length.
C7_OffsetRejected ==
    (/\ cOp = "decodeABA"
     /\ Len(cBuf) >= 3 * WORD
     /\ \/ Below(OffsetSlot(cBuf), 3 * WORD)
        \/ Above(OffsetSlot(cBuf), Len(cBuf)))
    => ~cOut.ok

\* C8: decodeABA fails for every non-32-byte buffer whose declared returnOptions
\* length exceeds the bytes remaining after the length word; what it returns is
\* never shorter than declared and is the bytes of the buffer after that word.
C8_LengthOverrunRejected ==
    (cOp = "decodeABA" /\ Len(cBuf) # WORD) =>
        /\ (HasLengthWord(cBuf) /\ Above(DeclaredLength(cBuf), Remaining(cBuf))) => ~cOut.ok
        /\ cOut.ok =>
            /\ HasLengthWord(cBuf)
            /\ DeclaredLength(cBuf) = U256(Len(cOut.returnOptions))
            /\ Len(cOut.returnOptions) <= Remaining(cBuf)
            /\ \A i \in 1..Len(cOut.returnOptions) :
                  cOut.returnOptions[i] = cBuf[Small(OffsetSlot(cBuf)) + WORD + i]

C8_Witness ==
    /\ cOp = "decodeABA" /\ Len(cBuf) > 4 * WORD
    /\ OffsetSlot(cBuf) = U256(3 * WORD)
    /\ FitsIn(DeclaredLength(cBuf), 3)
    /\ Small(DeclaredLength(cBuf)) = Remaining(cBuf) + 1
    /\ ~cOut.ok

\* C9 as stated: for a structurally valid ABA-shaped buffer whose type slot holds
\* any value other than 2, decodeABA succeeds and returns that tag, and receive
\* sets ball to the carried value and hands no reply to the transport.
C9_AnyTagAccepted ==
    (/\ last.op = "receive"
     /\ ABAShaped(last.payload)
     /\ TagSlot(last.payload) # U256(ABA_TYPE))
    => /\ decodeABA(last.payload).ok
       /\ U256(decodeABA(last.payload).msgType) = TagSlot(last.payload)
       /\ last.ok
       /\ ball[last.chain] = ValueSlot(last.payload)
       /\ last.sent = <<>>

\* C9 amended: the same for every type slot value other than 2 that fits the
\* uint16 tag (0..65535); a type slot above 65535 makes decodeABA, and with it
\* receive, fail with ball unchanged and nothing sent.
C9_Uint16TagAccepted ==
    (/\ last.op = "receive"
     /\ ABAShaped(last.payload)
     /\ TagSlot(last.payload) # U256(ABA_TYPE))
    => IF FitsIn(TagSlot(last.payload), 2)
       THEN /\ decodeABA(last.payload).ok
            /\ U256(decodeABA(last.payload).msgType) = TagSlot(last.payload)
            /\ last.ok
            /\ ball[last.chain] = ValueSlot(last.payload)
            /\ last.sent = <<>>
       ELSE /\ ~decodeABA(last.payload).ok
            /\ ~last.ok
            /\ ball[last.chain] = last.oldBall
            /\ last.sent = <<>>

C9_Witness ==
    /\ ReceiveDone
    /\ ABAShaped(last.payload)
    /\ TagSlot(last.payload) = U256(3)
    /\ ball[last.chain] = U256(100)
    /\ last.oldBall # U256(100)

\* C10: a successful send from ball = b (b >= 1) leaves ball = b - 1 and hands the
\* transport exactly one message, addressed to dstEid, whose payload is
\* encodeABA(b - 1, returnOptions) with the caller's returnOptions unchanged.
C10_SendDecrementsAndEncodes ==
    (last.op = "send" /\ last.ok) =>
        LET out == net[last.peer]
        IN /\ ~IsZero(last.oldBall)
           /\ AddDigits(ball[last.chain], U256(1)) = last.oldBall
           /\ ~AddOverflows(ball[last.chain], U256(1))
           /\ Len(last.sent) = 1
           /\ last.sent[1].dstEid = last.peer
           /\ last.sent[1].message = encodeABA(ball[last.chain], last.returnOptions)
           /\ Len(out) >= 1 /\ out[Len(out)] = last.sent[1]

C10_Witness ==
    /\ last.op = "send" /\ last.ok
    /\ last.returnOptions # <<>>
    /\ Len(last.sent) = 1

\* the failures of a call that come from _lzSend
TransportErrors == {"NoPeer", "LZ_InsufficientFee", "Transfer_NativeFailed"}

\* the last call was a receive of a message that decodes as ABA with a value the
\* reply can carry
ReceivedABA ==
    /\ last.op = "receive"
    /\ decodeABA(last.payload).ok
    /\ decodeABA(last.payload).msgType = ABA_TYPE
    /\ ~IsZero(decodeABA(last.payload).value)

\* C11: a send that the transport rejects (no peer, insufficient fee) fails as a
\* whole: the step leaves ball as it was, puts nothing in flight and logs nothing.
C11_RejectedSendIsAtomic ==
    [][(last'.op = "send" /\ ~last'.ok /\ last'.err \in TransportErrors)
        => /\ ball' = ball
           /\ net' = net
           /\ last'.sent = <<>>
           /\ last'.events = <<>>]_vars

C11_Witness ==
    /\ last.op = "send" /\ ~last.ok
    /\ last.err = "LZ_InsufficientFee"
    /\ last.value < last.price
    /\ ball[last.chain] = last.oldBall

\* C12: a receive whose payload does not decode fails, and the step leaves ball as
\* it was, logs no event and hands no reply to the transport.
C12_BadPayloadIsRejected ==
    [][(last'.op = "receive" /\ ~decodeABA(last'.payload).ok)
        => /\ ~last'.ok
           /\ ball' = ball
           /\ last'.events = <<>>
           /\ last'.sent = <<>>
           /\ net'[Peer(last'.chain)] = net[Peer(last'.chain)]]_vars

C12_Witness ==
    /\ last.op = "receive" /\ ~last.ok
    /\ ~decodeABA(last.payload).ok
    /\ Len(last.payload) > WORD

\* C13 as stated: when the reply send fails inside receive of an ABA message, the
\* receiving endpoint's ball stays updated from the received message (the carried
\* value, or the carried value minus one) and no reply is in flight.
C13_BallKeptWhenReplyFails ==
    (ReceivedABA /\ ~last.ok /\ last.err \in TransportErrors)
    => /\ ball[last.chain] \in {decodeABA(last.payload).value,
                                Dec(decodeABA(last.payload).value)}
       /\ last.sent = <<>>

\* C14: in receive of an ABA message the reply send succeeds when the forwarded
\* native value equals the reply's price, and fails for insufficient fee when the
\* forwarded value is one unit below it.
C14_ExactFeeSuffices ==
    ReceivedABA
    => /\ last.value = last.price => (last.ok /\ Len(last.sent) = 1)
       /\ last.value + 1 = last.price
            => (~last.ok /\ last.err = "LZ_InsufficientFee" /\ last.sent = <<>>)

C14_Witness ==
    /\ ReceivedABA /\ last.ok
    /\ last.source = "net"
    /\ last.value = last.price
    /\ Len(last.sent) = 1

\* C15: the reply of a receive is addressed to the source path of the received
\* message, carries the 32-byte Vanilla payload encode(value - 1), and carries the
\* fee (nativeAmount = the native value forwarded with the delivery, tokenAmount = 0).
C15_ReplyShape ==
    (ReceiveDone /\ last.sent # <<>>)
    => LET reply == last.sent[1]
           value == decodeABA(last.payload).value
       IN /\ Len(last.sent) = 1
          /\ reply.srcEid = last.chain
          /\ reply.dstEid = last.peer
          /\ Len(reply.message) = WORD
          /\ decode(reply.message).ok
          /\ AddDigits(decode(reply.message).value, U256(1)) = value
          /\ ~AddOverflows(decode(reply.message).value, U256(1))
          /\ reply.nativeFee = last.value
          /\ reply.lzTokenFee = 0

C15_Witness ==
    /\ ReceiveDone
    /\ Len(last.sent) = 1
    /\ last.sent[1].dstEid = "A"
    /\ last.sent[1].message = encode(U256(99))

\* the options send builds for the documented return gas estimate when the caller
\* passes no options of its own
UnfundedOptions == {BuildOptions(enf, U128(50000), <<>>).bytes : enf \in EnforcedSet}

\* C16 as stated: a forward message that send produced with a return gas estimate
\* and no native-value entry from the caller or the enforced options funds the
\* reply by itself: the value forwarded with its delivery covers the reply's price
\* and the reply is sent.
C16_ForwardFundsReply ==
    (ReceivedABA /\ last.source = "net" /\ last.options \in UnfundedOptions)
    => /\ last.value >= last.price
       /\ last.ok
       /\ Len(last.sent) = 1

\* the type-3 blob the contract's entry is appended to: the enforced options, or
\* the bare header when none are set
Prefix == IF enforced = <<>> THEN <<0, 3>> ELSE enforced

\* the executor entry that follows the prefix in a built options blob
EntryOf(options) == SubSeq(options, Len(Prefix) + 1, Len(Prefix) + 4 + GAS_BYTES)

\* an lzReceive entry with this gas limit and no value field (native value 0)
IsGasOnlyEntry(entry, gas) ==
    /\ SubSeq(entry, 1, 4) = <<1, 0, 1 + GAS_BYTES, 1>>
    /\ SubSeq(entry, 5, 4 + GAS_BYTES) = Packed(gas)
    /\ ForwardedValue(<<0, 3>> \o entry) = 0

C18_EnforcedOptionsFirst ==
    (last.op = "send" /\ last.ok)
    => LET entry == <<1, 0, 1 + GAS_BYTES, 1>>
                        \o Packed(AddDigits(U128(180000), last.returnGasEstimate))
       IN last.sent[1].options = Prefix \o entry \o last.options

C18_Witness ==
    /\ last.op = "send" /\ last.ok
    /\ enforced # <<>>
    /\ last.options # <<>>

\* C19: in every storage state and for every argument tuple, the payload and
\* options a successful quote submits to the fee oracle are byte for byte those
\* send hands to the transport when called in that state with the same arguments
\* and the price paid.
C19_QuoteMatchesSend ==
    (last.op = "quote" /\ last.ok)
    => LET r == send(last.chain, ball[last.chain], enforced, last.peer, last.returnOptions,
                     last.returnGasEstimate, last.options, last.price, last.price)
       IN /\ r.ok
          /\ Len(r.sent) = 1 /\ Len(last.quoted) = 1
          /\ r.sent[1].dstEid = last.quoted[1].dstEid
          /\ r.sent[1].message = last.quoted[1].message
          /\ r.sent[1].options = last.quoted[1].options

C19_Witness ==
    /\ last.op = "quote" /\ last.ok
    /\ ball[last.chain] # INITIAL_BALL
    /\ last.options # <<>>

\* C20: a quote step, whether it returns a fee or fails, leaves ball and the
\* enforced options as they were and puts no message in flight.
C20_QuoteIsView ==
    [][last'.op = "quote" => (ball' = ball /\ net' = net /\ enforced' = enforced)]_vars

C20_Witness ==
    /\ last.op = "quote" /\ ~last.ok
    /\ ball[last.chain] = last.oldBall
    /\ last.quoted = <<>>

\* C21: encodeABA(v, r) is the head [v][2][96], then the length word len(r), then
\* r right-padded with zeros to a 32-byte multiple: 128 + 32 * ceil(len(r) / 32)
\* bytes, never 32; encodeABA(100, empty) is 128 bytes and decodes to (100, 2, empty).
C21_ABALayout ==
    cSrc = "encodeABA"
    => LET n == Len(cOpts)
           padded == 32 * ((n + 31) \div 32)
       IN /\ Len(cBuf) = 128 + padded
          /\ Len(cBuf) # 32
          /\ SubSeq(cBuf, 1, 32) = WordOf(cVal)
          /\ ValueOf(SubSeq(cBuf, 33, 64)) = U256(2)
          /\ ValueOf(SubSeq(cBuf, 65, 96)) = U256(96)
          /\ ValueOf(SubSeq(cBuf, 97, 128)) = U256(n)
          /\ SubSeq(cBuf, 129, 128 + n) = cOpts
          /\ \A i \in (129 + n)..Len(cBuf) : cBuf[i] = 0
          /\ (cVal = U256(100) /\ cOpts = <<>> /\ cOp = "decodeABA")
                => cOut = Ok(U256(100), 2, <<>>)

C21_Witness ==
    /\ cSrc = "encodeABA" /\ cOp = "decodeABA"
    /\ cVal = U256(100) /\ cOpts = <<>>
    /\ Len(cBuf) = 128
    /\ cOut.ok

\* C22 as stated: between the two peers alone, whenever no message is in flight
\* (every message sent so far has been delivered), both contracts hold the same
\* ball.
C22_NoDesync == Quiet => ball["A"] = ball["B"]

\* C23 as stated: when the native value forwarded to receive of an ABA message is
\* above the reply's price, the reply send still succeeds and receive completes
\* (the excess going back to the receiving contract).
C23_OverpaidReplySucceeds ==
    (ReceivedABA /\ last.value > last.price)
    => /\ last.ok
       /\ Len(last.sent) = 1

\* C24: quoteReturnGas leaves ball as it was and, when it succeeds, submits to the
\* fee oracle the 32-byte Vanilla payload encode(ball - 1) on the given source path
\* with the given returnOptions, unchanged, as the options.
C24_ReturnQuoteShape ==
    last.op = "quoteReturnGas"
    => /\ ball[last.chain] = last.oldBall
       /\ Quiet
       /\ last.ok
            => /\ Len(last.quoted) = 1
               /\ last.quoted[1].dstEid = last.peer
               /\ last.quoted[1].options = last.returnOptions
               /\ Len(last.quoted[1].message) = WORD
               /\ decode(last.quoted[1].message).ok
               /\ AddDigits(decode(last.quoted[1].message).value, U256(1)) = ball[last.chain]
               /\ ~AddOverflows(decode(last.quoted[1].message).value, U256(1))

C24_Witness ==
    /\ last.op = "quoteReturnGas" /\ last.ok
    /\ last.returnOptions # <<>>
    /\ ball[last.chain] = U256(100)
    /\ last.quoted[1].message = encode(U256(99))

\* what a packet in flight can still cause: an ABA message itself and one reply, a
\* Vanilla message only itself
RECURSIVE Pending(_)
Pending(packets) ==
    IF packets = <<>> THEN 0
    ELSE (IF Len(Head(packets).message) = WORD THEN 1 ELSE 2) + Pending(Tail(packets))

\* C25: every send adds at most two pending transport messages (the forward message
\* and its reply); every delivery uses one up: it hands over at most one reply, only
\* when the delivered message was not a Vanilla one, and the reply is a 32-byte
\* Vanilla message, so the messages in flight drain without any new send.
C25_NoPingPongLoop ==
    [][/\ Pending(net'["A"]) + Pending(net'["B"])
            <= Pending(net["A"]) + Pending(net["B"]) + 2 * (nCalls' - nCalls)
       /\ last'.op = "receive"
            => /\ Pending(net'["A"]) + Pending(net'["B"]) < Pending(net["A"]) + Pending(net["B"])
               /\ Len(net'["A"]) + Len(net'["B"]) <= Len(net["A"]) + Len(net["B"])
               /\ Len(last'.sent) <= 1
               /\ last'.sent # <<>>
                    => /\ Len(last'.payload) # WORD
                       /\ Len(last'.sent[1].message) = WORD]_vars

C25_Witness ==
    /\ ReceiveDone
    /\ last.source = "net"
    /\ Len(last.payload) = WORD
    /\ last.chain = "A"
    /\ Quiet
    /\ nCalls = 1

\* u + n = b in 256-bit arithmetic, without wrapping
Plus(u, n, b) == AddDigits(u, U256(n)) = b /\ ~AddOverflows(u, U256(n))

\* C26: in a round trip started by a send from ball = b with nothing else in flight
\* and no other call made meanwhile, the forward message carries b - 1, the peer
\* that receives it holds b - 2 and replies with b - 2, and once the reply is
\* received both contracts hold b - 2.
C26_RoundTrip ==
    (last.op = "receive" /\ last.source = "net" /\ last.roundBall # <<>>)
    => LET b == last.roundBall
       IN IF Len(last.payload) # WORD
          THEN /\ decodeABA(last.payload).ok
               /\ Plus(decodeABA(last.payload).value, 1, b)
               /\ last.ok
                    => /\ Len(last.sent) = 1
                       /\ Plus(decode(last.sent[1].message).value, 2, b)
                       /\ Plus(ball[last.chain], 2, b)
          ELSE /\ last.ok
               /\ Plus(decode(last.payload).value, 2, b)
               /\ Plus(ball[last.chain], 2, b)
               /\ ball[Peer(last.chain)] = ball[last.chain]
               /\ Quiet

C26_Witness ==
    /\ ReceiveDone
    /\ last.source = "net"
    /\ Len(last.payload) = WORD
    /\ last.roundBall = INITIAL_BALL
    /\ ball["A"] = ball["B"]
    /\ Plus(ball["A"], 2, INITIAL_BALL)

\* C27: ball never wraps below zero: a send from ball = 0 fails, a quote in a state
\* with ball = 0 fails, and a receive of an ABA message that carries 0 fails (so the
\* forward message of a send from ball = 1 is never received successfully), each
\* leaving ball as it was and handing nothing to the transport.
C27_NoWrapBelowZero ==
    /\ (last.op = "send" /\ IsZero(last.oldBall))
        => /\ ~last.ok
           /\ ball[last.chain] = last.oldBall
           /\ last.sent = <<>>
    /\ \A c \in Chains :
          IsZero(ball[c])
          => \A args \in QuoteArgs(c) :
                LET q == quote(c, ball[c], enforced, args[1], args[2], args[3], args[4],
                               args[5], EndpointPrice)
                IN ~q.ok /\ q.ball = ball[c] /\ q.quoted = <<>>
    /\ (/\ last.op = "receive"
        /\ decodeABA(last.payload).ok
        /\ decodeABA(last.payload).msgType = ABA_TYPE
        /\ IsZero(decodeABA(last.payload).value))
        => /\ ~last.ok
           /\ ball[last.chain] = last.oldBall
           /\ last.sent = <<>>
           /\ last.events = <<>>
    /\ (last.op = "send" /\ last.ok /\ last.oldBall = U256(1))
        => /\ IsZero(ball[last.chain])
           /\ IsZero(decodeABA(last.sent[1].message).value)

\* the forward message of a send from ball = 1 was delivered to the peer, which
\* refused it
C27_Witness ==
    /\ last.op = "receive" /\ ~last.ok
    /\ last.source = "net"
    /\ decodeABA(last.payload).msgType = ABA_TYPE
    /\ IsZero(decodeABA(last.payload).value)
    /\ IsZero(ball[Peer(last.chain)])
    /\ ball[last.chain] = last.oldBall

\* a > b for unsigned integers of the same width
Exceeds(a, b) == \E i \in 1..Len(a) : a[i] > b[i] /\ \A j \in (i + 1)..Len(a) : a[j] = b[j]

\* C28: 180000 + returnGasEstimate does not wrap: with a returnGasEstimate above
\* 2^128 - 1 - 180000 send fails with ball as it was and nothing sent, and so does
\* quote with the same arguments (for the first such estimate and for the largest);
\* the estimate 2^128 - 1 - 180000 itself still gives the gas limit 2^128 - 1.
C28_GasSumDoesNotWrap ==
    /\ (last.op = "send" /\ last.ok) => ~Exceeds(last.returnGasEstimate, GasHeadroom)
    /\ (last.op = "send" /\ Exceeds(last.returnGasEstimate, GasHeadroom))
        => /\ ~last.ok
           /\ ball[last.chain] = last.oldBall
           /\ last.sent = <<>>
           /\ \A est \in {last.returnGasEstimate, MAX_U128} :
                 /\ ~send(last.chain, last.oldBall, enforced, last.peer, last.returnOptions,
                          est, last.options, last.value, last.price).ok
                 /\ ~quote(last.chain, last.oldBall, enforced, last.peer, last.returnOptions,
                           est, last.options, FALSE, last.price).ok
           /\ BuildOptions(enforced, GasHeadroom, last.options).ok
           /\ IsGasOnlyEntry(EntryOf(BuildOptions(enforced, GasHeadroom, last.options).bytes),
                             MAX_U128)

C28_Witness ==
    /\ last.op = "send" /\ ~last.ok
    /\ last.returnGasEstimate = AddDigits(GasHeadroom, U128(1))
    /\ last.peer = Peer(last.chain)
    /\ last.value = last.price
    /\ ~IsZero(last.oldBall)

\* C29: a successful receive leaves ball = value for a Vanilla or non-ABA-tagged
\* message and ball = value - 1 for an ABA message, and the same delivery to a
\* receiver that held any other ball succeeds with the same ball and the same reply.
C29_ReceiveIgnoresPriorBall ==
    ReceiveDone
    => LET d == decodeABA(last.payload)
       IN /\ d.msgType = ABA_TYPE => Plus(ball[last.chain], 1, d.value)
          /\ d.msgType # ABA_TYPE => ball[last.chain] = d.value
          /\ \A prior \in BallSet :
                LET r == _lzReceive(last.chain, prior, last.peer, last.payload, last.value,
                                    last.price)
                IN r.ok /\ r.ball = ball[last.chain] /\ r.sent = last.sent

C29_Witness ==
    /\ ReceiveDone
    /\ decodeABA(last.payload).msgType = ABA_TYPE
    /\ IsZero(last.oldBall)
    /\ ball[last.chain] = U256(99)
    /\ Len(last.sent) = 1

\* C30: between the two peers alone, in every reachable state each contract's ball
\* is at most the initial ball and every message in flight decodes and carries a
\* value strictly below the initial ball.
C30_BelowInitialBall ==
    /\ \A c \in Chains : ~Exceeds(ball[c], INITIAL_BALL)
    /\ \A c \in Chains : \A i \in 1..Len(net[c]) :
          /\ decodeABA(net[c][i].message).ok
          /\ Exceeds(INITIAL_BALL, decodeABA(net[c][i].message).value)

C30_Witness ==
    /\ net["A"] # <<>>
    /\ net["B"] # <<>>
    /\ Exceeds(INITIAL_BALL, ball["A"])
    /\ Exceeds(INITIAL_BALL, ball["B"])

\* the positions in the log of the last call at which an event of that name stands
Logged(name) == {i \in 1..Len(last.events) : last.events[i].name = name}

\* C31: the events match the state changes: a successful send logs exactly
\* BallServed(old, old - 1); a successful receive logs BallReceived(previous ball,
\* received value) first; ReturnMessageSent(srcEid, value - 1) is logged if and only
\* if the receive handed a reply to the transport, as the last event and with the
\* value the reply carries; a reverted call leaves no event.
C31_EventsMatch ==
    /\ (last.op = "send" /\ last.ok)
          => /\ last.events = <<Event("BallServed", last.peer, last.oldBall, ball[last.chain])>>
             /\ Plus(ball[last.chain], 1, last.oldBall)
    /\ ReceiveDone
          => /\ Logged("BallReceived") = {1}
             /\ last.events[1] = Event("BallReceived", last.chain, last.oldBall,
                                       decodeABA(last.payload).value)
             /\ Logged("BallServed") = {}
             /\ (Logged("ReturnMessageSent") # {}) <=> (last.sent # <<>>)
             /\ last.sent # <<>>
                   => /\ Logged("ReturnMessageSent") = {2}
                      /\ Len(last.events) = 2
                      /\ last.events[2].eid = last.peer
                      /\ last.events[2].new = decode(last.sent[1].message).value
                      /\ Plus(last.events[2].new, 1, decodeABA(last.payload).value)
             /\ last.sent = <<>> => Len(last.events) = 1
    /\ (last.op \in {"send", "receive"} /\ ~last.ok) => last.events = <<>>

C31_Witness ==
    /\ ReceiveDone
    /\ last.sent # <<>>
    /\ Logged("ReturnMessageSent") = {2}
    /\ last.events[2].new = U256(99)

\* C32: on the Solana side decode_aba(encode_aba(ball, return_options)) returns
\* (ball, msg_type = 2, return_options) for every 32-byte ball and every
\* return_options, and a 32-byte Vanilla message is rejected by decode_aba with
\* InvalidMessageLength, so that lz_receive takes the Vanilla fallback.
C32_SolanaRoundTrip ==
    /\ (cSrc = "encode_aba" /\ cOp = "decode_aba")
          => cOut = AbaMessage(WordOf(cVal), ABA_TYPE, cOpts)
    /\ (Len(cBuf) = WORD /\ cOp = "decode_aba") => cOut = Err("InvalidMessageLength")
    /\ (Len(cBuf) = WORD /\ cOp = "lz_receive") => cOut.path = "vanilla"
    /\ (cSrc = "encode_aba" /\ cOp = "lz_receive")
          => /\ cOut.path = "aba"
             /\ cOut.ball = WordOf(cVal)
             /\ cOut.new_ball # <<>>

C32_Witness ==
    /\ cSrc = "encode_aba"
    /\ cOp = "decode_aba"
    /\ cVal = INITIAL_BALL
    /\ Len(cOpts) = WORD + 1
    /\ cOut.ok
    /\ cOut.return_options = cOpts

\* C33: decode_aba applied to any byte string either returns a message or returns
\* the InvalidMessageLength error, also for inputs of 35, 36 or 37 bytes.
C33_DecodeAbaTotal ==
    cOp = "decode_aba" => (cOut.ok \/ cOut.err = "InvalidMessageLength")

\* C34: a payload produced by the EVM encodeABA(v, r), decoded with the Solana
\* decode_aba, yields ball = v, msg_type = ABA_TYPE and return_options = r, and
\* lz_receive on the Solana side prepares a reply for it.
C34_ChainsAgreeOnABA ==
    /\ (cSrc = "encodeABA" /\ cOp = "decode_aba")
          => cOut = AbaMessage(WordOf(cVal), ABA_TYPE, cOpts)
    /\ (cSrc = "encodeABA" /\ cOp = "lz_receive")
          => (cOut.path = "aba" /\ cOut.new_ball # <<>>)

\* C35: for every payload produced by encodeABA the scripts' ABA decoder accepts the
\* offset read from the third head slot and reports the return options; for empty
\* return options the offset is 128.
C35_ScriptsAcceptOffset ==
    (cSrc = "encodeABA" /\ cOp \in {"decodeMessage", "inspectTransaction"})
    => /\ cOut.ok
       /\ cOut.returnOptions = cOpts
       /\ cOpts = <<>> => cOut.offset = U256(4 * WORD)

\* what a run of the task has done so far agrees with its quote
TaskAgrees ==
    /\ task.sendCall # <<>>
          => /\ task.chainType = "evm"
             /\ task.quoteCall # <<>>
             /\ task.sendCall[1].dstEid = task.quoteCall[1].dstEid
             /\ task.sendCall[1].returnOptions = task.quoteCall[1].returnOptions
             /\ task.sendCall[1].returnGasEstimate = task.quoteCall[1].returnGasEstimate
             /\ task.sendCall[1].options = task.quoteCall[1].options
             /\ task.sendCall[1].value = task.nativeFee
    /\ (task.sendCall # <<>> /\ last.op = "send")
          => /\ last.peer = task.quoteCall[1].dstEid
             /\ last.returnOptions = task.quoteCall[1].returnOptions
             /\ last.returnGasEstimate = task.quoteCall[1].returnGasEstimate
             /\ last.options = task.quoteCall[1].options
             /\ last.value = task.nativeFee
    /\ task.chainType \notin {"none", "evm", "solana"}
          => /\ task.pc = "failed"
             /\ task.err = "Unsupported ChainType for fromEid"
             /\ task.quoteCall = <<>>
             /\ task.sendCall = <<>>

\* C36: on the EVM path the lz:oapp:send task calls send with exactly the (dstEid,
\* returnOptions, returnGasEstimate, options) it passed to quote and attaches the
\* quoted native fee as value; for a fromEid whose chain type is neither Solana nor
\* EVM it raises an error, and that step calls no contract and sends nothing.
C36_TaskSendsWhatItQuoted ==
    [][/\ TaskAgrees'
       /\ (task.pc = "idle" /\ task'.chainType \notin {"none", "evm", "solana"})
             => UNCHANGED <<ball, net, last, nCalls>>]_vars

C36_Witness ==
    /\ task.pc = "sent"
    /\ task.nativeFee = EndpointPrice
    /\ task.sendCall[1].value = EndpointPrice
    /\ last.op = "send"
    /\ last.ok
    /\ net[Peer(task.chain)] # <<>>

====
